---- MODULE Spec2Model ----
(***************************************************************************)
(* SERP clustering (src/src/cluster.ts): URL overlap between keyword       *)
(* pairs, greedy clustering, cluster output records and slug generation.   *)
(*                                                                         *)
(* Strings that the code takes apart (keywords, overlap-matrix keys, slug  *)
(* text) are sequences of one-character strings, so that the key template  *)
(* `${kw1}|${kw2}`, key.split("|") and the slug pipeline are computed as   *)
(* the code computes them.  URLs are opaque values (small integers).       *)
(* A JavaScript Map is a sequence of entries in insertion order; a         *)
(* JavaScript Set built from a list is the list without repeats, in        *)
(* first-occurrence order.                                                 *)
(***************************************************************************)
EXTENDS Integers, Sequences, FiniteSets, TLC

VARIABLES
    serpData,       \* Map<string, string[]>: <<[keyword, urls]>> in insertion order
    minOverlap,     \* clusterKeywords' threshold parameter
    overlapMatrix,  \* Map<string, OverlapData>: <<[key, sharedUrls, count, overlapScore]>>
    sortedPairs,    \* clusterKeywords: entries sorted by count, descending
    idx,            \* clusterKeywords: position of the greedy loop in sortedPairs
    clusters,       \* clusterKeywords: Set<string>[]
    assigned,       \* clusterKeywords: Set<string>
    clusterOutput,  \* createClusterOutput: ClusterOutput[]
    pc,             \* position in the pipeline of runClustering
    slugText,       \* generateSlug: the current text
    slugPrev,       \* generateSlug: the text before the last application
    slugApplied,    \* generateSlug: how many times it has been applied
    rows,           \* loadSerpData: the records parsed from the input file
    rowIdx,         \* loadSerpData: position of the loop in rows
    inputExists,    \* tool handler: whether input_file exists at the check
    fault,          \* tool handler: the step of runClustering that throws, if any
    written,        \* tool handler: the output files written so far, in order
    toolResult,     \* tool handler: the result returned, "none" before
    runCalls        \* tool handler: how often runClustering was invoked

vars == <<serpData, minOverlap, overlapMatrix, sortedPairs, idx, clusters,
          assigned, clusterOutput, pc, slugText, slugPrev, slugApplied,
          rows, rowIdx, inputExists, fault, written, toolResult, runCalls>>

pipelineVars == <<serpData, minOverlap, overlapMatrix, sortedPairs, idx,
                  clusters, assigned, clusterOutput>>

slugVars == <<slugText, slugPrev, slugApplied>>

loadVars == <<rows, rowIdx>>

toolVars == <<inputExists, fault, written, toolResult, runCalls>>

\* the handler has returned nothing yet
NoResult == [returned |-> FALSE, isError |-> FALSE, success |-> FALSE,
             error |-> "", clusters_created |-> 0]

(***************************************************************************)
(* Bounds of the model                                                     *)
(***************************************************************************)
MaxKeywords == 4        \* keywords in a keyword map
MaxMinOverlap == 2      \* thresholds 1..MaxMinOverlap
MaxSuffixLen == 3       \* free characters at the end of a slug input

(***************************************************************************)
(* Generic helpers                                                         *)
(***************************************************************************)
Range(s) == {s[i] : i \in 1..Len(s)}

Min(a, b) == IF a <= b THEN a ELSE b

\* new Set(list), read back in iteration order: first occurrences only
RECURSIVE Dedup(_)
Dedup(s) ==
    IF s = <<>> THEN <<>>
    ELSE LET front == Dedup(SubSeq(s, 1, Len(s) - 1))
             last == s[Len(s)]
         IN IF last \in Range(front) THEN front ELSE Append(front, last)

\* Array.prototype.filter with a membership test
FilterIn(s, S) == SelectSeq(s, LAMBDA x : x \in S)

\* String.prototype.split(sep) for a one-character separator
RECURSIVE Split(_, _)
Split(s, sep) ==
    IF \A i \in 1..Len(s) : s[i] # sep THEN <<s>>
    ELSE LET i == CHOOSE k \in 1..Len(s) :
                      s[k] = sep /\ \A j \in 1..(k - 1) : s[j] # sep
         IN <<SubSeq(s, 1, i - 1)>> \o Split(SubSeq(s, i + 1, Len(s)), sep)

\* Array.prototype.join(sep) for strings as character sequences
RECURSIVE Join(_, _)
Join(parts, sep) ==
    IF parts = <<>> THEN <<>>
    ELSE IF Len(parts) = 1 THEN parts[1]
    ELSE parts[1] \o <<sep>> \o Join(Tail(parts), sep)

\* UTF-16 code units of the characters the model uses
CharCode(c) ==
    CASE c = " " -> 32
      [] c = "!" -> 33
      [] c = "-" -> 45
      [] c = "1" -> 49
      [] c = "B" -> 66
      [] c = "a" -> 97
      [] c = "b" -> 98
      [] c = "c" -> 99
      [] c = "d" -> 100
      [] c = "|" -> 124

\* the default comparison of Array.prototype.sort: by code units, a proper
\* prefix first
RECURSIVE StrLess(_, _)
StrLess(s, t) ==
    IF t = <<>> THEN FALSE
    ELSE IF s = <<>> THEN TRUE
    ELSE IF s[1] # t[1] THEN CharCode(s[1]) < CharCode(t[1])
    ELSE StrLess(Tail(s), Tail(t))

\* Array.from(set).sort()
RECURSIVE SortStrings(_)
SortStrings(S) ==
    IF S = {} THEN <<>>
    ELSE LET m == CHOOSE x \in S : \A y \in S : x = y \/ StrLess(x, y)
         IN <<m>> \o SortStrings(S \ {m})

(***************************************************************************)
(* The keyword map                                                         *)
(***************************************************************************)
Keywords(sd) == [i \in 1..Len(sd) |-> sd[i].keyword]

KeywordSet(sd) == {sd[i].keyword : i \in 1..Len(sd)}

\* serpData.get(kw): the URL list, or undefined; new Set(undefined) is the
\* empty set, so an absent keyword reads as the empty list
Get(sd, kw) ==
    IF kw \in KeywordSet(sd)
    THEN sd[CHOOSE i \in 1..Len(sd) : sd[i].keyword = kw].urls
    ELSE <<>>

(***************************************************************************)
(* calculateUrlOverlap                                                     *)
(***************************************************************************)
\* combinations(items): the pairs <<items[i], items[j]>>, i < j, i outermost
RECURSIVE CombinationsFrom(_, _, _)
CombinationsFrom(items, i, j) ==
    IF i > Len(items) THEN <<>>
    ELSE IF j > Len(items) THEN CombinationsFrom(items, i + 1, i + 2)
    ELSE <<<<items[i], items[j]>>>> \o CombinationsFrom(items, i, j + 1)

Combinations(items) == CombinationsFrom(items, 1, 2)

\* the template literal `${kw1}|${kw2}`
PairKey(kw1, kw2) == kw1 \o <<"|">> \o kw2

\* the score divided by the shorter list's length, repeated URLs counted
OverlapDataListLength(list1, list2) ==
    LET urls1 == Dedup(list1)
        urls2 == Dedup(list2)
        shared == FilterIn(urls1, Range(urls2))
    IN [sharedUrls |-> shared,
        count |-> Len(shared),
        overlapScore |-> <<Len(shared), Min(Len(list1), Len(list2))>>]

\* the OverlapData of two URL lists; overlapScore is the quotient
\* sharedCount / Math.min(urls1.size, urls2.size), kept as <<numerator, denominator>>
OverlapData(list1, list2) ==
    LET urls1 == Dedup(list1)
        urls2 == Dedup(list2)
        shared == FilterIn(urls1, Range(urls2))
    IN [sharedUrls |-> shared,
        count |-> Len(shared),
        overlapScore |-> <<Len(shared), Min(Len(urls1), Len(urls2))>>]

\* Map.prototype.set: an existing key keeps its place and takes the new value
MapSet(m, key, data) ==
    LET e == [key |-> key, sharedUrls |-> data.sharedUrls, count |-> data.count,
              overlapScore |-> data.overlapScore]
    IN IF \E k \in 1..Len(m) : m[k].key = key
       THEN [k \in 1..Len(m) |-> IF m[k].key = key THEN e ELSE m[k]]
       ELSE Append(m, e)

RECURSIVE OverlapLoop(_, _, _)
OverlapLoop(sd, pairs, m) ==
    IF pairs = <<>> THEN m
    ELSE LET kw1 == pairs[1][1]
             kw2 == pairs[1][2]
             data == OverlapData(Get(sd, kw1), Get(sd, kw2))
         IN OverlapLoop(sd, Tail(pairs),
                        IF data.count > 0 THEN MapSet(m, PairKey(kw1, kw2), data)
                        ELSE m)

calculateUrlOverlap(sd) == OverlapLoop(sd, Combinations(Keywords(sd)), <<>>)

(***************************************************************************)
(* clusterKeywords                                                         *)
(***************************************************************************)
\* Array.prototype.sort((a, b) => b[1].count - a[1].count): stable, so the
\* entries of one count keep their order
RECURSIVE SortFrom(_, _)
SortFrom(entries, c) ==
    IF c <= 0 THEN <<>>
    ELSE SelectSeq(entries, LAMBDA e : e.count = c) \o SortFrom(entries, c - 1)

MaxCount(entries) ==
    IF entries = <<>> THEN 0
    ELSE CHOOSE c \in {entries[i].count : i \in 1..Len(entries)} :
             \A i \in 1..Len(entries) : entries[i].count <= c

\* the sort left out: the entries in the matrix's own order
SortPairsUnsorted(entries) == entries

SortPairs(entries) == SortFrom(entries, MaxCount(entries))

\* const [kw1, kw2] = key.split("|"): the first two pieces
SplitKey(key) ==
    LET parts == Split(key, "|") IN <<parts[1], parts[2]>>

\* the scan for the first cluster holding kw1 or kw2; 0 stands for -1
FindCluster(cs, kw1, kw2) ==
    IF \E i \in 1..Len(cs) : kw1 \in cs[i] \/ kw2 \in cs[i]
    THEN CHOOSE i \in 1..Len(cs) :
             /\ kw1 \in cs[i] \/ kw2 \in cs[i]
             /\ \A j \in 1..(i - 1) : ~(kw1 \in cs[j] \/ kw2 \in cs[j])
    ELSE 0

\* the loop body with a union of clusters: every cluster holding kw1 or kw2
\* is folded into the first one
GreedyClustersMerging(cs, key) ==
    LET kw == SplitKey(key)
        holders == {i \in 1..Len(cs) : kw[1] \in cs[i] \/ kw[2] \in cs[i]}
        clusterIdx == FindCluster(cs, kw[1], kw[2])
        merged == UNION {cs[i] : i \in holders} \cup {kw[1], kw[2]}
        kept == SelectSeq([i \in 1..Len(cs) |-> <<i, cs[i]>>],
                          LAMBDA p : p[1] = clusterIdx \/ p[1] \notin holders)
    IN IF clusterIdx # 0
       THEN [k \in 1..Len(kept) |->
                IF kept[k][1] = clusterIdx THEN merged ELSE kept[k][2]]
       ELSE Append(cs, {kw[1], kw[2]})

\* one pass of the greedy loop body on a qualifying entry
GreedyClusters(cs, key) ==
    LET kw == SplitKey(key)
        clusterIdx == FindCluster(cs, kw[1], kw[2])
    IN IF clusterIdx # 0
       THEN [cs EXCEPT ![clusterIdx] = @ \cup {kw[1], kw[2]}]
       ELSE Append(cs, {kw[1], kw[2]})

\* the final loop: one single-keyword cluster per keyword not in assigned
RECURSIVE WithSingletons(_, _, _)
WithSingletons(cs, keywords, asg) ==
    IF keywords = <<>> THEN cs
    ELSE WithSingletons(IF keywords[1] \in asg THEN cs
                        ELSE Append(cs, {keywords[1]}),
                        Tail(keywords), asg)

(***************************************************************************)
(* generateSlug                                                            *)
(***************************************************************************)
MaxSlugLen == 60

\* String.prototype.toLowerCase on the model's characters
ToLower(c) == IF c = "B" THEN "b" ELSE c

\* the characters kept by replace(/[^a-z0-9-]/g, "")
SlugChars == {"a", "b", "c", "d", "1", "-"}

generateSlug(text) ==
    LET lower == [i \in 1..Len(text) |-> ToLower(text[i])]
        dashed == [i \in 1..Len(lower) |-> IF lower[i] = " " THEN "-" ELSE lower[i]]
        kept == SelectSeq(dashed, LAMBDA c : c \in SlugChars)
        collapsed == Join(SelectSeq(Split(kept, "-"), LAMBDA p : p # <<>>), "-")
    IN SubSeq(collapsed, 1, Min(Len(collapsed), MaxSlugLen))

(***************************************************************************)
(* createClusterOutput                                                     *)
(***************************************************************************)
\* the URLs shared by all members of the sorted member list, in the order
\* of the primary keyword's list
RECURSIVE SharedUrlsLoop(_, _, _)
SharedUrlsLoop(sd, shared, rest) ==
    IF rest = <<>> THEN shared
    ELSE SharedUrlsLoop(sd, FilterIn(shared, Range(Dedup(Get(sd, rest[1])))),
                        Tail(rest))

\* the loop cut short: only the two first members are intersected
ClusterSharedUrlsFirstPair(sd, clusterList) ==
    SharedUrlsLoop(sd, Dedup(Get(sd, clusterList[1])),
                   SubSeq(clusterList, 2, Min(Len(clusterList), 2)))

ClusterSharedUrls(sd, clusterList) ==
    SharedUrlsLoop(sd, Dedup(Get(sd, clusterList[1])), Tail(clusterList))

\* slice(0, 3): the shared URLs a record shows
SharedUrlsShown == 3

\* one ClusterOutput record; cluster_keywords and shared_urls hold the lists
\* that the code joins with ", "
ClusterRecord(sd, cluster, i) ==
    LET clusterList == SortStrings(cluster)
        primaryKw == clusterList[1]
        sharedUrls == ClusterSharedUrls(sd, clusterList)
    IN [cluster_id |-> i,
        primary_keyword |-> primaryKw,
        cluster_keywords |-> clusterList,
        keyword_count |-> Len(clusterList),
        shared_urls |-> SubSeq(sharedUrls, 1, Min(Len(sharedUrls), SharedUrlsShown)),
        shared_url_count |-> Len(sharedUrls),
        recommended_slug |-> generateSlug(primaryKw)]

createClusterOutput(cs, sd) ==
    [i \in 1..Len(cs) |-> ClusterRecord(sd, cs[i], i)]

(***************************************************************************)
(* Inputs                                                                  *)
(***************************************************************************)
\* the keywords a map may hold, in the order in which the input rows name
\* them; some contain the key separator
KeywordOrder ==
    << <<"a">>, <<"b", "|", "c">>, <<"a", "|", "b">>, <<"c">>, <<"b">>, <<"d">> >>

\* the URL lists a keyword may have (one with a repeated URL, one longer
\* than the three URLs a record shows)
UrlLists == { <<1, 1>>, <<1, 3>>, <<2, 3>>, <<2>>, <<1, 2, 3, 4>> }

\* the sub-sequence of KeywordOrder picked by a set of positions
RECURSIVE PickFrom(_, _)
PickFrom(S, i) ==
    IF i > Len(KeywordOrder) THEN <<>>
    ELSE (IF i \in S THEN <<KeywordOrder[i]>> ELSE <<>>) \o PickFrom(S, i + 1)

KeywordLists ==
    {PickFrom(S, 1) : S \in {T \in SUBSET (1..Len(KeywordOrder)) :
                                  Cardinality(T) <= MaxKeywords}}

SerpInputs ==
    UNION {{[i \in 1..Len(ks) |-> [keyword |-> ks[i], urls |-> u[i]]] :
               u \in [1..Len(ks) -> UrlLists]} : ks \in KeywordLists}

\* slug inputs: a run of "a" followed by a few free characters
SlugAlphabet == {"a", "B", " ", "-", "!"}

RECURSIVE SeqsUpTo(_, _)
SeqsUpTo(S, n) ==
    IF n = 0 THEN {<<>>}
    ELSE LET shorter == SeqsUpTo(S, n - 1)
         IN shorter \cup {Append(q, c) : q \in shorter, c \in S}

SlugInputs ==
    {[i \in 1..n |-> "a"] \o suffix :
        n \in 0..(MaxSlugLen + 1), suffix \in SeqsUpTo(SlugAlphabet, MaxSuffixLen)}

(***************************************************************************)
(* The pipeline of runClustering, with clusterKeywords step by step        *)
(***************************************************************************)
Init ==
    /\ serpData \in SerpInputs
    /\ minOverlap \in 1..MaxMinOverlap
    /\ overlapMatrix = <<>>
    /\ sortedPairs = <<>>
    /\ idx = 1
    /\ clusters = <<>>
    /\ assigned = {}
    /\ clusterOutput = <<>>
    /\ pc = "overlap"
    /\ slugText = <<>>
    /\ slugPrev = <<>>
    /\ slugApplied = 0
    /\ rows = <<>>
    /\ rowIdx = 1
    /\ inputExists = TRUE
    /\ fault = "none"
    /\ written = <<>>
    /\ toolResult = NoResult
    /\ runCalls = 0

\* const overlapMatrix = calculateUrlOverlap(serpData)
CalculateOverlap ==
    /\ pc = "overlap"
    /\ overlapMatrix' = calculateUrlOverlap(serpData)
    /\ pc' = "sort"
    /\ UNCHANGED <<serpData, minOverlap, sortedPairs, idx, clusters, assigned,
                   clusterOutput, slugVars, loadVars, toolVars>>

\* clusterKeywords up to the greedy loop: empty clusters, sorted pairs
ClusterBegin ==
    /\ pc = "sort"
    /\ clusters' = <<>>
    /\ assigned' = {}
    /\ sortedPairs' = SortPairs(overlapMatrix)
    /\ idx' = 1
    /\ pc' = "greedy"
    /\ UNCHANGED <<serpData, minOverlap, overlapMatrix, clusterOutput, slugVars, loadVars, toolVars>>

\* one iteration of the greedy loop on an entry that reaches the threshold
GreedyStep ==
    /\ pc = "greedy"
    /\ idx <= Len(sortedPairs)
    /\ sortedPairs[idx].count >= minOverlap
    /\ clusters' = GreedyClusters(clusters, sortedPairs[idx].key)
    /\ assigned' = assigned \cup Range(SplitKey(sortedPairs[idx].key))
    /\ idx' = idx + 1
    /\ UNCHANGED <<serpData, minOverlap, overlapMatrix, sortedPairs,
                   clusterOutput, pc, slugVars, loadVars, toolVars>>

\* the loop ends (break on a count below the threshold, or no entry left);
\* the unassigned keywords follow as single-keyword clusters
GreedyEnd ==
    /\ pc = "greedy"
    /\ \/ idx > Len(sortedPairs)
       \/ /\ idx <= Len(sortedPairs)
          /\ sortedPairs[idx].count < minOverlap
    /\ clusters' = WithSingletons(clusters, Keywords(serpData), assigned)
    /\ pc' = "output"
    /\ UNCHANGED <<serpData, minOverlap, overlapMatrix, sortedPairs, idx,
                   assigned, clusterOutput, slugVars, loadVars, toolVars>>

\* const clustersData = createClusterOutput(clusters, serpData)
CreateOutput ==
    /\ pc = "output"
    /\ clusterOutput' = createClusterOutput(clusters, serpData)
    /\ pc' = "done"
    /\ UNCHANGED <<serpData, minOverlap, overlapMatrix, sortedPairs, idx,
                   clusters, assigned, slugVars, loadVars, toolVars>>

Next ==
    \/ CalculateOverlap
    \/ ClusterBegin
    \/ GreedyStep
    \/ GreedyEnd
    \/ CreateOutput

Spec == Init /\ [][Next]_vars

(***************************************************************************)
(* generateSlug applied to an input, and again to its own output           *)
(***************************************************************************)
InitSlug ==
    /\ serpData = <<>>
    /\ minOverlap = 3
    /\ overlapMatrix = <<>>
    /\ sortedPairs = <<>>
    /\ idx = 1
    /\ clusters = <<>>
    /\ assigned = {}
    /\ clusterOutput = <<>>
    /\ pc = "slug"
    /\ slugText \in SlugInputs
    /\ slugPrev = <<>>
    /\ slugApplied = 0
    /\ rows = <<>>
    /\ rowIdx = 1
    /\ inputExists = TRUE
    /\ fault = "none"
    /\ written = <<>>
    /\ toolResult = NoResult
    /\ runCalls = 0

ApplySlug ==
    /\ pc = "slug"
    /\ slugApplied < 2
    /\ slugPrev' = slugText
    /\ slugText' = generateSlug(slugText)
    /\ slugApplied' = slugApplied + 1
    /\ UNCHANGED <<pipelineVars, pc, loadVars, toolVars>>

NextSlug == ApplySlug

SpecSlug == InitSlug /\ [][NextSlug]_vars

(***************************************************************************)
(* Vocabulary of the properties                                            *)
(***************************************************************************)
\* clusterKeywords has returned: clusters is its result
Returned == pc \in {"output", "done"}

\* calculateUrlOverlap has returned: overlapMatrix is its result
OverlapDone == pc # "overlap" /\ pc # "slug"

\* a keyword's URLs as a set; a string that is no keyword has none
UrlSet(kw) == Range(Get(serpData, kw))

SharedCount(kw1, kw2) == Cardinality(UrlSet(kw1) \cap UrlSet(kw2))

\* the positions of the unordered pairs of distinct keywords
KeywordPairs ==
    {p \in (1..Len(serpData)) \X (1..Len(serpData)) : p[1] < p[2]}

Kw(i) == serpData[i].keyword

ClustersWith(kw) == {i \in 1..Len(clusters) : kw \in clusters[i]}

EntriesWithKey(key) == {k \in 1..Len(overlapMatrix) : overlapMatrix[k].key = key}

HasSeparator(kw) == \E i \in 1..Len(kw) : kw[i] = "|"

(***************************************************************************)
(* C1: the clusters returned by clusterKeywords partition the keyword set: *)
(* every keyword of the map is a member of exactly one cluster.            *)
(***************************************************************************)
C1_Partition ==
    Returned =>
        \A kw \in KeywordSet(serpData) : Cardinality(ClustersWith(kw)) = 1

(***************************************************************************)
(* C2: the union of the members of all returned clusters is the set of     *)
(* keys of the keyword map (no keyword missing, no string that is not a    *)
(* keyword), also for keywords that contain "|".                           *)
(***************************************************************************)
C2_UnionIsKeywordSet ==
    Returned => UNION Range(clusters) = KeywordSet(serpData)

(***************************************************************************)
(* C3: two distinct keywords whose URL sets share at least minOverlap URLs *)
(* are both members of at least one returned cluster.                      *)
(***************************************************************************)
C3_QualifyingPairTogether ==
    Returned =>
        \A p \in KeywordPairs :
            SharedCount(Kw(p[1]), Kw(p[2])) >= minOverlap =>
                \E i \in 1..Len(clusters) :
                    Kw(p[1]) \in clusters[i] /\ Kw(p[2]) \in clusters[i]

(***************************************************************************)
(* C4: every member of a returned cluster with two or more members shares  *)
(* at least minOverlap URLs with another member of that cluster; a keyword *)
(* whose shared count with every other keyword is below minOverlap is only *)
(* in clusters of size 1.                                                  *)
(***************************************************************************)
C4_MembersReachThreshold ==
    Returned =>
        /\ \A i \in 1..Len(clusters) :
               Cardinality(clusters[i]) >= 2 =>
                   \A kw \in clusters[i] :
                       \E other \in clusters[i] \ {kw} :
                           SharedCount(kw, other) >= minOverlap
        /\ \A kw \in KeywordSet(serpData) :
               (\A other \in KeywordSet(serpData) \ {kw} :
                    SharedCount(kw, other) < minOverlap) =>
                   \A i \in ClustersWith(kw) : Cardinality(clusters[i]) = 1

(***************************************************************************)
(* C5: calculateUrlOverlap returns exactly one entry per unordered pair of *)
(* distinct keywords whose URL sets intersect, none for a pair with an     *)
(* empty intersection, as many entries as there are intersecting pairs,    *)
(* and each entry's count is the size of the intersection of the two URL   *)
(* lists taken as sets; also for keywords that contain "|".                *)
(***************************************************************************)
C5_OneEntryPerOverlappingPair ==
    OverlapDone =>
        /\ Len(overlapMatrix) =
               Cardinality({p \in KeywordPairs :
                               SharedCount(Kw(p[1]), Kw(p[2])) > 0})
        /\ \A p \in KeywordPairs :
               LET n == SharedCount(Kw(p[1]), Kw(p[2]))
                   found == EntriesWithKey(PairKey(Kw(p[1]), Kw(p[2])))
               IN IF n > 0
                  THEN /\ Cardinality(found) = 1
                       /\ \A k \in found : overlapMatrix[k].count = n
                  ELSE found = {}

(***************************************************************************)
(* C6: every entry of the overlap matrix is the entry of a pair kw1, kw2   *)
(* of keywords with overlapScore = count / min(number of distinct URLs of  *)
(* kw1, number of distinct URLs of kw2) and 1 <= count <= that minimum, so *)
(* the score is greater than 0 and at most 1.                              *)
(***************************************************************************)
C6_ScoreInUnitInterval ==
    OverlapDone =>
        \A k \in 1..Len(overlapMatrix) :
            LET e == overlapMatrix[k] IN
            /\ \E p \in KeywordPairs :
                   LET smaller == Min(Cardinality(UrlSet(Kw(p[1]))),
                                      Cardinality(UrlSet(Kw(p[2]))))
                   IN /\ e.key = PairKey(Kw(p[1]), Kw(p[2]))
                      /\ e.count = SharedCount(Kw(p[1]), Kw(p[2]))
                      /\ e.overlapScore = <<e.count, smaller>>
                      /\ 1 <= e.count
                      /\ e.count <= smaller
            /\ 0 < e.overlapScore[1]
            /\ e.overlapScore[1] <= e.overlapScore[2]

\* an entry of a pair one of whose URL lists repeats a URL, with a score
\* below 1 and an entry with score 1 in the same matrix
C6_Witness ==
    /\ OverlapDone
    /\ \E k \in 1..Len(overlapMatrix) : \E p \in KeywordPairs :
           /\ overlapMatrix[k].key = PairKey(Kw(p[1]), Kw(p[2]))
           /\ Len(serpData[p[1]].urls) > Cardinality(UrlSet(Kw(p[1])))
           /\ overlapMatrix[k].overlapScore[1] = overlapMatrix[k].overlapScore[2]
    /\ \E k \in 1..Len(overlapMatrix) :
           overlapMatrix[k].overlapScore[1] < overlapMatrix[k].overlapScore[2]

(***************************************************************************)
(* C7: clusterKeywords returns at most as many clusters as the map has     *)
(* keywords.                                                               *)
(***************************************************************************)
C7_AtMostOneClusterPerKeyword ==
    Returned => Len(clusters) <= Len(serpData)

(***************************************************************************)
(* C8: the returned list holds the clusters of the greedy pass first, in   *)
(* the order of their creation, then the single-keyword clusters of the    *)
(* keywords that no qualifying pair touched, in keyword-map order, and     *)
(* createClusterOutput numbers the records 1, 2, ..., n in that order.     *)
(***************************************************************************)
\* the keywords of the pairs that share at least minOverlap URLs
TouchedKeywords ==
    UNION {{Kw(p[1]), Kw(p[2])} :
              p \in {q \in KeywordPairs :
                        SharedCount(Kw(q[1]), Kw(q[2])) >= minOverlap}}

UntouchedSingletons ==
    LET untouched == SelectSeq(Keywords(serpData),
                               LAMBDA kw : kw \notin TouchedKeywords)
    IN [i \in 1..Len(untouched) |-> {untouched[i]}]

C8_Step ==
    /\ (pc = "greedy" /\ pc' = "greedy") =>
           /\ Len(clusters') \in {Len(clusters), Len(clusters) + 1}
           /\ \A i \in 1..Len(clusters) : clusters[i] \subseteq clusters'[i]
    /\ (pc = "greedy" /\ pc' = "output") =>
           clusters' = clusters \o UntouchedSingletons
    /\ (pc = "output" /\ pc' = "done") =>
           /\ Len(clusterOutput') = Len(clusters)
           /\ \A i \in 1..Len(clusters) :
                  /\ clusterOutput'[i].cluster_id = i
                  /\ clusterOutput'[i].cluster_keywords = SortStrings(clusters[i])

C8_OutputOrder == [][C8_Step]_vars

(***************************************************************************)
(* C9: in every record of createClusterOutput, shared_url_count is the     *)
(* size of the intersection of the URL sets of all members of the cluster  *)
(* (a member that is no keyword of the map has no URLs), shared_urls holds *)
(* at most 3 URLs, each of that intersection, and for a single-keyword     *)
(* cluster the intersection is the keyword's own URL set.                  *)
(***************************************************************************)
SharedByAll(cluster) ==
    {u \in UNION {UrlSet(m) : m \in cluster} : \A m \in cluster : u \in UrlSet(m)}

C9_SharedByAllMembers ==
    pc = "done" =>
        /\ Len(clusterOutput) = Len(clusters)
        /\ \A i \in 1..Len(clusters) :
               LET rec == clusterOutput[i] IN
               /\ rec.shared_url_count = Cardinality(SharedByAll(clusters[i]))
               /\ Len(rec.shared_urls) <= 3
               /\ Range(rec.shared_urls) \subseteq SharedByAll(clusters[i])
               /\ \A kw \in KeywordSet(serpData) :
                      clusters[i] = {kw} =>
                          rec.shared_url_count = Cardinality(UrlSet(kw))

\* a cluster of three or more keywords whose common URLs are fewer than
\* those its two first members share
C9_Witness ==
    /\ pc = "done"
    /\ \E i \in 1..Len(clusters) :
           LET rec == clusterOutput[i] IN
           /\ rec.keyword_count >= 3
           /\ clusters[i] \subseteq KeywordSet(serpData)
           /\ rec.shared_url_count >= 1
           /\ rec.shared_url_count <
                  SharedCount(rec.cluster_keywords[1], rec.cluster_keywords[2])

(***************************************************************************)
(* C10: generateSlug is idempotent: applied to its own output it returns   *)
(* that output, also when the truncation to 60 characters cuts the text.   *)
(***************************************************************************)
C10_SlugIdempotent ==
    (pc = "slug" /\ slugApplied = 2) => slugText = slugPrev

(***************************************************************************)
(* Keyword maps none of whose keywords contains the key separator: on      *)
(* these the separator-dependent properties C2, C3, C4, C5, C7 and C8 do   *)
(* hold of clusterKeywords and calculateUrlOverlap, so their failures come *)
(* from the concatenated key alone.  C1 fails on such maps too.            *)
(***************************************************************************)
NoSeparator == \A i \in 1..Len(serpData) : ~HasSeparator(Kw(i))

SeparatorFree_C2 == NoSeparator => C2_UnionIsKeywordSet

SeparatorFree_C3 == NoSeparator => C3_QualifyingPairTogether

SeparatorFree_C4 == NoSeparator => C4_MembersReachThreshold

SeparatorFree_C5 == NoSeparator => C5_OneEntryPerOverlappingPair

SeparatorFree_C7 == NoSeparator => C7_AtMostOneClusterPerKeyword

SeparatorFree_C8 == [][NoSeparator => C8_Step]_vars

(***************************************************************************)
(* C11: the output of generateSlug has at most 60 characters, all of them  *)
(* in [a-z0-9-], and has no leading hyphen, no trailing hyphen and no two  *)
(* consecutive hyphens.                                                    *)
(***************************************************************************)
C11_SlugWellFormed ==
    (pc = "slug" /\ slugApplied = 1) =>
        /\ Len(slugText) <= 60
        /\ \A i \in 1..Len(slugText) :
               slugText[i] \in {"a", "b", "c", "d", "1", "-"}
        /\ slugText # <<>> =>
               /\ slugText[1] # "-"
               /\ slugText[Len(slugText)] # "-"
        /\ \A i \in 1..(Len(slugText) - 1) :
               ~(slugText[i] = "-" /\ slugText[i + 1] = "-")

\* the same without the clause on the trailing hyphen, which is the one the
\* truncation breaks
C11_AllButTrailingHyphen ==
    (pc = "slug" /\ slugApplied = 1) =>
        /\ Len(slugText) <= 60
        /\ \A i \in 1..Len(slugText) :
               slugText[i] \in {"a", "b", "c", "d", "1", "-"}
        /\ slugText # <<>> => slugText[1] # "-"
        /\ \A i \in 1..(Len(slugText) - 1) :
               ~(slugText[i] = "-" /\ slugText[i + 1] = "-")

(***************************************************************************)
(* loadSerpData                                                            *)
(***************************************************************************)
MaxRows == 3            \* records in an input file

\* String.prototype.trim on the model's characters
RECURSIVE TrimStart(_)
TrimStart(s) ==
    IF s # <<>> /\ s[1] = " " THEN TrimStart(Tail(s)) ELSE s

RECURSIVE TrimEnd(_)
TrimEnd(s) ==
    IF s # <<>> /\ s[Len(s)] = " " THEN TrimEnd(SubSeq(s, 1, Len(s) - 1)) ELSE s

Trim(s) == TrimEnd(TrimStart(s))

Digits == {"0", "1", "2", "3", "4", "5", "6", "7", "8", "9"}

DigitValue(c) ==
    CASE c = "0" -> 0 [] c = "1" -> 1 [] c = "2" -> 2 [] c = "3" -> 3
      [] c = "4" -> 4 [] c = "5" -> 5 [] c = "6" -> 6 [] c = "7" -> 7
      [] c = "8" -> 8 [] c = "9" -> 9

\* the value of the longest prefix of digits, given the value read so far;
\* <<>> when the prefix is empty
RECURSIVE DigitPrefix(_, _, _)
DigitPrefix(s, acc, any) ==
    IF s # <<>> /\ s[1] \in Digits
    THEN DigitPrefix(Tail(s), 10 * acc + DigitValue(s[1]), TRUE)
    ELSE IF any THEN <<acc>> ELSE <<>>

\* parseInt(text, 10): leading white space, an optional sign, then digits;
\* <<n>> for the number n, <<>> for NaN
ParseInt(text) ==
    LET s == TrimStart(text)
        signed == s # <<>> /\ s[1] \in {"-", "+"}
        digits == DigitPrefix(IF signed THEN Tail(s) ELSE s, 0, FALSE)
    IN IF digits = <<>> THEN <<>>
       ELSE IF signed /\ s[1] = "-" THEN <<0 - digits[1]>>
       ELSE digits

\* parseInt(row.position, 10) || 0: NaN and 0 both give 0
RowPosition(row) ==
    LET n == ParseInt(row.position)
    IN IF n = <<>> THEN 0 ELSE n[1]

\* the body of the loop over the records, with the comparison `< 10`
LoadRowBelowTen(sd, row) ==
    LET keyword == Trim(row.keyword)
    IN IF RowPosition(row) < 10
       THEN IF keyword \in KeywordSet(sd)
            THEN [i \in 1..Len(sd) |->
                     IF sd[i].keyword = keyword
                     THEN [sd[i] EXCEPT !.urls = Append(@, row.url)]
                     ELSE sd[i]]
            ELSE Append(sd, [keyword |-> keyword, urls |-> <<row.url>>])
       ELSE sd

\* the body of the loop over the records; URLs are opaque, so url.trim()
\* leaves them as they are
LoadRow(sd, row) ==
    LET keyword == Trim(row.keyword)
    IN IF RowPosition(row) <= 10
       THEN IF keyword \in KeywordSet(sd)
            THEN [i \in 1..Len(sd) |->
                     IF sd[i].keyword = keyword
                     THEN [sd[i] EXCEPT !.urls = Append(@, row.url)]
                     ELSE sd[i]]
            ELSE Append(sd, [keyword |-> keyword, urls |-> <<row.url>>])
       ELSE sd

RECURSIVE LoadLoop(_, _)
LoadLoop(sd, rs) ==
    IF rs = <<>> THEN sd ELSE LoadLoop(LoadRow(sd, rs[1]), Tail(rs))

loadSerpData(rs) == LoadLoop(<<>>, rs)

\* the records an input file may hold
RowKeywords == { <<"a">>, <<" ", "a">>, <<"b">> }

RowPositions == { <<"1", "0">>, <<"1", "1">>, <<"x">> }

RowUrls == {1, 2}

Rows ==
    {[keyword |-> k, position |-> p, url |-> u] :
        k \in RowKeywords, p \in RowPositions, u \in RowUrls}

RowInputs == SeqsUpTo(Rows, MaxRows)

InitLoad ==
    /\ rows \in RowInputs
    /\ rowIdx = 1
    /\ serpData = <<>>
    /\ minOverlap = 3
    /\ overlapMatrix = <<>>
    /\ sortedPairs = <<>>
    /\ idx = 1
    /\ clusters = <<>>
    /\ assigned = {}
    /\ clusterOutput = <<>>
    /\ pc = "load"
    /\ slugText = <<>>
    /\ slugPrev = <<>>
    /\ slugApplied = 0
    /\ inputExists = TRUE
    /\ fault = "none"
    /\ written = <<>>
    /\ toolResult = NoResult
    /\ runCalls = 0

\* one iteration of `for (const row of records)`
LoadRowStep ==
    /\ pc = "load"
    /\ rowIdx <= Len(rows)
    /\ serpData' = LoadRow(serpData, rows[rowIdx])
    /\ rowIdx' = rowIdx + 1
    /\ UNCHANGED <<minOverlap, overlapMatrix, sortedPairs, idx, clusters,
                   assigned, clusterOutput, pc, slugVars, rows, toolVars>>

\* return serpData
LoadReturn ==
    /\ pc = "load"
    /\ rowIdx > Len(rows)
    /\ pc' = "loaded"
    /\ UNCHANGED <<pipelineVars, slugVars, loadVars, toolVars>>

NextLoad ==
    \/ LoadRowStep
    \/ LoadReturn

SpecLoad == InitLoad /\ [][NextLoad]_vars

(***************************************************************************)
(* C12: loadSerpData maps each keyword to exactly the URLs of its rows     *)
(* whose position is <= 10, in row order and with duplicates kept; a       *)
(* position that does not parse as an integer counts as 0 (the row is      *)
(* included), a row with position > 10 is dropped, a keyword all of whose  *)
(* rows are dropped is absent, and every keyword of the map has a URL.     *)
(***************************************************************************)
\* the position a row states: its number when it is written in digits only,
\* 0 when it holds no number (the two forms the model's positions have)
StatedPosition(row) ==
    IF row.position # <<>> /\ \A i \in 1..Len(row.position) : row.position[i] \in Digits
    THEN DigitPrefix(row.position, 0, FALSE)[1]
    ELSE 0

RowsOf(kw) ==
    SelectSeq(rows, LAMBDA r : Trim(r.keyword) = kw /\ StatedPosition(r) <= 10)

UrlsOfRows(kw) == [i \in 1..Len(RowsOf(kw)) |-> RowsOf(kw)[i].url]

C12_LoadTopTen ==
    pc = "loaded" =>
        /\ \A i \in 1..Len(rows) :
               Get(serpData, Trim(rows[i].keyword)) = UrlsOfRows(Trim(rows[i].keyword))
        /\ KeywordSet(serpData) =
               {Trim(rows[i].keyword) : i \in {j \in 1..Len(rows) :
                                                  StatedPosition(rows[j]) <= 10}}
        /\ Cardinality(KeywordSet(serpData)) = Len(serpData)
        /\ \A i \in 1..Len(serpData) : serpData[i].urls # <<>>

\* a file with a row of unparsable position that is kept, a keyword whose
\* only row has position 11 and is absent, and a URL kept twice
C12_Witness ==
    /\ pc = "loaded"
    /\ \E i \in 1..Len(rows) :
           /\ ParseInt(rows[i].position) = <<>>
           /\ rows[i].url \in Range(Get(serpData, Trim(rows[i].keyword)))
    /\ \E i \in 1..Len(rows) :
           /\ StatedPosition(rows[i]) > 10
           /\ Trim(rows[i].keyword) \notin KeywordSet(serpData)
    /\ \E i \in 1..Len(serpData) :
           Len(serpData[i].urls) > Cardinality(Range(serpData[i].urls))

(***************************************************************************)
(* The cluster_keywords tool: the CallToolRequestSchema handler and        *)
(* runClustering.  A step of runClustering may throw (an unreadable or     *)
(* malformed input, an unwritable output path); fault names the step that  *)
(* does.  written lists the files whose writeFileSync has returned.        *)
(***************************************************************************)
MaxToolRows == 1        \* records in the input file of a tool call

\* the whole of clusterKeywords: the greedy loop up to its break, then the
\* unassigned keywords
RECURSIVE GreedyLoop(_, _, _, _)
GreedyLoop(cs, asg, pairs, threshold) ==
    IF pairs = <<>> \/ pairs[1].count < threshold
    THEN [clusters |-> cs, assigned |-> asg]
    ELSE GreedyLoop(GreedyClusters(cs, pairs[1].key),
                    asg \cup Range(SplitKey(pairs[1].key)),
                    Tail(pairs), threshold)

clusterKeywords(sd, om, threshold) ==
    LET g == GreedyLoop(<<>>, {}, SortPairs(om), threshold)
    IN WithSingletons(g.clusters, Keywords(sd), g.assigned)

\* the statements of runClustering that can throw, in program order, with
\* the two saves exchanged
RunStepsOverlapFirst == <<"runLoad", "runCompute", "runSaveOverlap", "runSaveClusters">>

\* the statements of runClustering that can throw, in program order
RunSteps == <<"runLoad", "runCompute", "runSaveClusters", "runSaveOverlap">>

StepAfter(step) ==
    LET i == CHOOSE k \in 1..Len(RunSteps) : RunSteps[k] = step
    IN IF i < Len(RunSteps) THEN RunSteps[i + 1] ELSE "runReturn"

\* the check skipped: the input is never reported missing
InputMissingNever(exists) == FALSE

\* !existsSync(input_file)
InputMissing(exists) == ~exists

ErrorResult(message) ==
    [returned |-> TRUE, isError |-> TRUE, success |-> FALSE,
     error |-> message, clusters_created |-> 0]

SuccessResult(n) ==
    [returned |-> TRUE, isError |-> FALSE, success |-> TRUE,
     error |-> "", clusters_created |-> n]

InitTool ==
    /\ rows \in SeqsUpTo(Rows, MaxToolRows)
    /\ rowIdx = 1
    /\ inputExists \in BOOLEAN
    /\ fault \in {"none"} \cup Range(RunSteps)
    /\ written = <<>>
    /\ toolResult = NoResult
    /\ runCalls = 0
    /\ serpData = <<>>
    /\ minOverlap = 3
    /\ overlapMatrix = <<>>
    /\ sortedPairs = <<>>
    /\ idx = 1
    /\ clusters = <<>>
    /\ assigned = {}
    /\ clusterOutput = <<>>
    /\ pc = "call"
    /\ slugText = <<>>
    /\ slugPrev = <<>>
    /\ slugApplied = 0

\* the handler returns the 'Input file not found' error
HandlerMissingInput ==
    /\ pc = "call"
    /\ InputMissing(inputExists)
    /\ toolResult' = ErrorResult("Input file not found")
    /\ pc' = "returned"
    /\ UNCHANGED <<pipelineVars, slugVars, loadVars, inputExists, fault,
                   written, runCalls>>

\* the handler enters the try block and calls runClustering
HandlerInvoke ==
    /\ pc = "call"
    /\ ~InputMissing(inputExists)
    /\ runCalls' = runCalls + 1
    /\ pc' = RunSteps[1]
    /\ UNCHANGED <<pipelineVars, slugVars, loadVars, inputExists, fault,
                   written, toolResult>>

\* const serpData = loadSerpData(inputFile)
RunLoad ==
    /\ pc = "runLoad"
    /\ fault # pc
    /\ serpData' = loadSerpData(rows)
    /\ pc' = StepAfter(pc)
    /\ UNCHANGED <<minOverlap, overlapMatrix, sortedPairs, idx, clusters,
                   assigned, clusterOutput, slugVars, loadVars, toolVars>>

\* calculateUrlOverlap, clusterKeywords(serpData, overlapMatrix, 3) and
\* createClusterOutput
RunCompute ==
    /\ pc = "runCompute"
    /\ fault # pc
    /\ overlapMatrix' = calculateUrlOverlap(serpData)
    /\ clusters' = clusterKeywords(serpData, overlapMatrix', minOverlap)
    /\ clusterOutput' = createClusterOutput(clusters', serpData)
    /\ pc' = StepAfter(pc)
    /\ UNCHANGED <<serpData, minOverlap, sortedPairs, idx, assigned,
                   slugVars, loadVars, toolVars>>

\* saveClusters(clustersData, outputClusters)
RunSaveClusters ==
    /\ pc = "runSaveClusters"
    /\ fault # pc
    /\ written' = Append(written, "clusters")
    /\ pc' = StepAfter(pc)
    /\ UNCHANGED <<pipelineVars, slugVars, loadVars, inputExists, fault,
                   toolResult, runCalls>>

\* saveOverlapMatrix(overlapMatrix, outputOverlap)
RunSaveOverlap ==
    /\ pc = "runSaveOverlap"
    /\ fault # pc
    /\ written' = Append(written, "overlap")
    /\ pc' = StepAfter(pc)
    /\ UNCHANGED <<pipelineVars, slugVars, loadVars, inputExists, fault,
                   toolResult, runCalls>>

\* runClustering returns { success: true, ... } and the handler returns it
RunReturn ==
    /\ pc = "runReturn"
    /\ toolResult' = SuccessResult(Len(clusters))
    /\ pc' = "returned"
    /\ UNCHANGED <<pipelineVars, slugVars, loadVars, inputExists, fault,
                   written, runCalls>>

\* a step throws; the handler's catch block returns the error
RunThrows ==
    /\ pc \in Range(RunSteps)
    /\ fault = pc
    /\ toolResult' = ErrorResult(pc)
    /\ pc' = "returned"
    /\ UNCHANGED <<pipelineVars, slugVars, loadVars, inputExists, fault,
                   written, runCalls>>

NextTool ==
    \/ HandlerMissingInput
    \/ HandlerInvoke
    \/ RunLoad
    \/ RunCompute
    \/ RunSaveClusters
    \/ RunSaveOverlap
    \/ RunReturn
    \/ RunThrows

SpecTool == InitTool /\ [][NextTool]_vars

(***************************************************************************)
(* C13: a call of cluster_keywords whose input_file does not exist returns *)
(* an error result (isError, 'Input file not found') before any            *)
(* processing: runClustering is never invoked, no output file is written.  *)
(***************************************************************************)
C13_MissingInputRejected ==
    (pc # "call" /\ ~inputExists) =>
        /\ pc = "returned"
        /\ toolResult.returned
        /\ toolResult.isError
        /\ ~toolResult.success
        /\ toolResult.error = "Input file not found"
        /\ runCalls = 0
        /\ written = <<>>
        /\ serpData = <<>>
        /\ clusterOutput = <<>>

C13_Witness ==
    /\ pc = "returned"
    /\ ~inputExists
    /\ toolResult.isError
    /\ rows # <<>>

(***************************************************************************)
(* C14: a result with success = true is returned only after the clusters   *)
(* file and then the overlap file have been written, in that order; when   *)
(* loading, computing or either write fails the call returns an error      *)
(* result and never a success result.                                      *)
(***************************************************************************)
C14_SuccessOnlyAfterBothWrites ==
    /\ toolResult.success =>
           /\ written = <<"clusters", "overlap">>
           /\ ~toolResult.isError
           /\ fault = "none"
    /\ (pc = "returned" /\ inputExists /\ fault # "none") =>
           /\ toolResult.isError
           /\ ~toolResult.success
    /\ pc = "returned" => toolResult.returned /\ (toolResult.isError # toolResult.success)
    /\ \E n \in 0..2 : written = SubSeq(<<"clusters", "overlap">>, 1, n)

\* a successful call, and the files it wrote
C14_Witness ==
    /\ pc = "returned"
    /\ toolResult.success
    /\ written = <<"clusters", "overlap">>
    /\ serpData # <<>>

(***************************************************************************)
(* C15: a step of the greedy pass on a qualifying entry, kw1 and kw2 being *)
(* the two strings the step takes from the entry's key, either adds kw1    *)
(* and kw2 to the first cluster in creation order that holds kw1 or kw2,   *)
(* or, when no cluster holds either, appends the cluster {kw1, kw2}; every *)
(* other cluster is unchanged.  So no cluster is merged, removed or        *)
(* shrunk: a member of a cluster stays a member of it, also when kw1 and   *)
(* kw2 already sit in two different clusters.                              *)
(***************************************************************************)
C15_Step ==
    /\ (pc = "greedy" /\ pc' = "greedy" /\ idx' # idx) =>
           LET kw == SplitKey(sortedPairs[idx].key)
               holders == {i \in 1..Len(clusters) :
                              kw[1] \in clusters[i] \/ kw[2] \in clusters[i]}
           IN IF holders # {}
              THEN LET first == CHOOSE i \in holders : \A j \in holders : i <= j
                   IN /\ Len(clusters') = Len(clusters)
                      /\ clusters'[first] = clusters[first] \cup {kw[1], kw[2]}
                      /\ \A i \in 1..Len(clusters) :
                             i # first => clusters'[i] = clusters[i]
              ELSE clusters' = Append(clusters, {kw[1], kw[2]})
    /\ pc = "greedy" =>
           /\ Len(clusters') >= Len(clusters)
           /\ \A i \in 1..Len(clusters) : clusters[i] \subseteq clusters'[i]

PlaceInMatrix(e) ==
    CHOOSE k \in 1..Len(overlapMatrix) : overlapMatrix[k].key = e.key

\* the entries the greedy loop has processed so far
Processed == SubSeq(sortedPairs, 1, idx - 1)

C16_ProcessingOrder ==
    pc \in {"greedy", "output", "done"} =>
        /\ Range(sortedPairs) = Range(overlapMatrix)
        /\ Len(sortedPairs) = Len(overlapMatrix)
        /\ \A i, j \in 1..Len(sortedPairs) :
               i < j =>
                   \/ sortedPairs[i].count > sortedPairs[j].count
                   \/ /\ sortedPairs[i].count = sortedPairs[j].count
                      /\ PlaceInMatrix(sortedPairs[i]) < PlaceInMatrix(sortedPairs[j])
        /\ \A i \in 1..Len(Processed) : Processed[i].count >= minOverlap
        /\ Returned =>
               /\ Range(Processed) =
                      {overlapMatrix[k] : k \in {n \in 1..Len(overlapMatrix) :
                                                    overlapMatrix[n].count >= minOverlap}}
               /\ idx <= Len(sortedPairs) => sortedPairs[idx].count < minOverlap

\* a run that processed two entries of equal count and an entry the sort
\* moved forward, and stopped at an entry below the threshold
C16_Witness ==
    /\ Returned
    /\ idx <= Len(sortedPairs)
    /\ sortedPairs # overlapMatrix
    /\ \E i, j \in 1..Len(Processed) :
           i < j /\ Processed[i].count = Processed[j].count
    /\ \E i \in 1..Len(Processed) : PlaceInMatrix(Processed[i]) > i

====
